---- MODULE Spec2Model ----
(***************************************************************************)
(* Separating-axis intersection test of practice14 (intersect.hpp) with    *)
(* its two shape adapters, aabb (aabb.cpp) and frustum (frustum.cpp).      *)
(*                                                                         *)
(* Coordinates are integers: every value the model feeds to the code is a  *)
(* small integer, for which float addition, multiplication and comparison  *)
(* are exact, so glm::dot and glm::cross are computed exactly as written.  *)
(* A vector is a tuple <<x, y, z>>, a shape is a record of three           *)
(* sequences (vertices, face_normals, edge_directions).                    *)
(***************************************************************************)
EXTENDS Integers, Sequences, FiniteSets, TLC

VARIABLES
    kind,       \* which call was made last: "none", "aabb", "shape", "frustum",
                \* "frustum_of", "point", "point_rev", "corners", "corners_rev",
                \* "grown" (intersect), "project", "along" (intersect_along),
                \* "bbox", "spline"
    args,       \* the constructor arguments of the bodies of that call, or its axis
    b1,         \* first argument of the last intersect call
    b2,         \* second argument of the last intersect call
    result,     \* its return value
    evaluated,  \* the axes it passed to intersect_along, in order
    grid,       \* hw1: the Grid object (quality, vtxs, indexes)
    draw_isoline, \* hw1: main's flag of the same name
    cam,        \* hw1: the Camera object (view, zoom)
    particles,  \* particle demo: the vector of particles
    paused,     \* particle demo: main's flag of the same name
    rng,        \* particle demo: how many init_particle calls have drawn from rng
    frame_dt,   \* particle demo: the frame time dt, 0 before the first frame
    frames      \* particle demo: the number of unpaused frames so far

\* the variables of the intersection queries and of the pure functions
queryVars == <<kind, args, b1, b2, result, evaluated>>

\* the variables of the hw1 program
hw1Vars == <<grid, draw_isoline, cam>>

\* the variables of the particle demo
demoVars == <<particles, paused, rng, frame_dt, frames>>

vars == <<kind, args, b1, b2, result, evaluated, grid, draw_isoline, cam,
          particles, paused, rng, frame_dt, frames>>

----------------------------------------------------------------------------
(* Bounds of the model. *)

\* box corners have coordinates in 0..MaxCoord
MaxCoord == 1

\* a hand-built shape has at most MaxLen vertices, MaxLen face normals and
\* MaxLen edge directions
MaxLen == 1

\* std::numeric_limits<float>::infinity(): larger than every dot product
Inf == 1000000000

----------------------------------------------------------------------------
(* glm *)

Dot(p, n) == p[1] * n[1] + p[2] * n[2] + p[3] * n[3]

Cross(x, y) ==
    << x[2] * y[3] - y[2] * x[3],
       x[3] * y[1] - y[3] * x[1],
       x[1] * y[2] - y[1] * x[2] >>

Add(p, q) == << p[1] + q[1], p[2] + q[2], p[3] + q[3] >>

Sub(p, q) == << p[1] - q[1], p[2] - q[2], p[3] - q[3] >>

Min(a, b) == IF b < a THEN b ELSE a

Max(a, b) == IF a < b THEN b ELSE a

----------------------------------------------------------------------------
(* intersect.hpp *)

\* project with std::min and std::max exchanged
RECURSIVE ProjectLoopSwapped(_, _, _, _, _)
ProjectLoopSwapped(vs, n, i, min, max) ==
    IF i > Len(vs)
    THEN << min, max >>
    ELSE LET v == Dot(vs[i], n)
         IN  ProjectLoopSwapped(vs, n, i + 1, Max(min, v), Min(max, v))

\* project with min = v for min = std::min(min, v)
RECURSIVE ProjectLoopLatest(_, _, _, _, _)
ProjectLoopLatest(vs, n, i, min, max) ==
    IF i > Len(vs)
    THEN << min, max >>
    ELSE LET v == Dot(vs[i], n)
         IN  ProjectLoopLatest(vs, n, i + 1, v, Max(max, v))

\* The loop of project: folds min and max over b.vertices from position i on
RECURSIVE ProjectLoop(_, _, _, _, _)
ProjectLoop(vs, n, i, min, max) ==
    IF i > Len(vs)
    THEN << min, max >>
    ELSE LET v == Dot(vs[i], n)
         IN  ProjectLoop(vs, n, i + 1, Min(min, v), Max(max, v))

\* project with max starting from 0 instead of -inf
ProjectMaxFromZero(b, n) == ProjectLoop(b.vertices, n, 1, Inf, 0)

Project(b, n) == ProjectLoop(b.vertices, n, 1, Inf, -Inf)

\* intersect_along with open intervals: < for <=
IntersectAlongStrict(x, y, n) ==
    LET p1 == Project(x, n)
        p2 == Project(y, n)
    IN  (p1[1] < p2[2]) /\ (p2[1] < p1[2])

\* intersect_along with || for &&
IntersectAlongEither(x, y, n) ==
    LET p1 == Project(x, n)
        p2 == Project(y, n)
    IN  (p1[1] <= p2[2]) \/ (p2[1] <= p1[2])

\* intersect_along with < in the first comparison only
IntersectAlongHalfOpen(x, y, n) ==
    LET p1 == Project(x, n)
        p2 == Project(y, n)
    IN  (p1[1] < p2[2]) /\ (p2[1] <= p1[2])

IntersectAlong(x, y, n) ==
    LET p1 == Project(x, n)
        p2 == Project(y, n)
    IN  (p1[1] <= p2[2]) /\ (p2[1] <= p1[2])

\* One of the two face-normal loops of intersect, from position i on. seen is
\* the sequence of axes tested so far; returned tells that the loop hit
\* "return false".
RECURSIVE FaceLoop(_, _, _, _, _)
FaceLoop(x, y, normals, i, seen) ==
    IF i > Len(normals)
    THEN [returned |-> FALSE, seen |-> seen]
    ELSE IF ~IntersectAlong(x, y, normals[i])
         THEN [returned |-> TRUE, seen |-> Append(seen, normals[i])]
         ELSE FaceLoop(x, y, normals, i + 1, Append(seen, normals[i]))

\* the edge loop with the two loops exchanged: e2 outer, e1 inner
RECURSIVE EdgeLoopInnerFirst(_, _, _, _, _)
EdgeLoopInnerFirst(x, y, i, j, seen) ==
    IF j > Len(y.edge_directions)
    THEN [returned |-> FALSE, seen |-> seen]
    ELSE IF i > Len(x.edge_directions)
         THEN EdgeLoopInnerFirst(x, y, 1, j + 1, seen)
         ELSE LET n == Cross(x.edge_directions[i], y.edge_directions[j])
              IN  IF ~IntersectAlong(x, y, n)
                  THEN [returned |-> TRUE, seen |-> Append(seen, n)]
                  ELSE EdgeLoopInnerFirst(x, y, i + 1, j, Append(seen, n))

\* The nested edge loop of intersect: e1 = x.edge_directions[i] (outer),
\* e2 = y.edge_directions[j] (inner).
RECURSIVE EdgeLoop(_, _, _, _, _)
EdgeLoop(x, y, i, j, seen) ==
    IF i > Len(x.edge_directions)
    THEN [returned |-> FALSE, seen |-> seen]
    ELSE IF j > Len(y.edge_directions)
         THEN EdgeLoop(x, y, i + 1, 1, seen)
         ELSE LET n == Cross(x.edge_directions[i], y.edge_directions[j])
              IN  IF ~IntersectAlong(x, y, n)
                  THEN [returned |-> TRUE, seen |-> Append(seen, n)]
                  ELSE EdgeLoop(x, y, i, j + 1, Append(seen, n))

\* intersect without its second loop, the one over b2.face_normals
IntersectWithoutSecondFaces(x, y) ==
    LET l1 == FaceLoop(x, y, x.face_normals, 1, << >>)
    IN  IF l1.returned
        THEN [result |-> FALSE, evaluated |-> l1.seen]
        ELSE LET l3 == EdgeLoop(x, y, 1, 1, l1.seen)
             IN  IF l3.returned
                 THEN [result |-> FALSE, evaluated |-> l3.seen]
                 ELSE [result |-> TRUE, evaluated |-> l3.seen]

\* intersect without its third loop, the one over the edge pairs
IntersectWithoutEdgeLoop(x, y) ==
    LET l1 == FaceLoop(x, y, x.face_normals, 1, << >>)
    IN  IF l1.returned
        THEN [result |-> FALSE, evaluated |-> l1.seen]
        ELSE LET l2 == FaceLoop(x, y, y.face_normals, 1, l1.seen)
             IN  IF l2.returned
                 THEN [result |-> FALSE, evaluated |-> l2.seen]
                 ELSE [result |-> TRUE, evaluated |-> l2.seen]

\* intersect with the edge directions of each body tested as axes as well
IntersectEdgesAsAxes(x, y) ==
    LET l1 == FaceLoop(x, y, x.face_normals \o x.edge_directions, 1, << >>)
    IN  IF l1.returned
        THEN [result |-> FALSE, evaluated |-> l1.seen]
        ELSE LET l2 == FaceLoop(x, y, y.face_normals \o y.edge_directions, 1, l1.seen)
             IN  IF l2.returned
                 THEN [result |-> FALSE, evaluated |-> l2.seen]
                 ELSE LET l3 == EdgeLoop(x, y, 1, 1, l2.seen)
                      IN  IF l3.returned
                          THEN [result |-> FALSE, evaluated |-> l3.seen]
                          ELSE [result |-> TRUE, evaluated |-> l3.seen]

\* intersect(b1, b2): the return value and the axes evaluated on the way
Intersect(x, y) ==
    LET l1 == FaceLoop(x, y, x.face_normals, 1, << >>)
    IN  IF l1.returned
        THEN [result |-> FALSE, evaluated |-> l1.seen]
        ELSE LET l2 == FaceLoop(x, y, y.face_normals, 1, l1.seen)
             IN  IF l2.returned
                 THEN [result |-> FALSE, evaluated |-> l2.seen]
                 ELSE LET l3 == EdgeLoop(x, y, 1, 1, l2.seen)
                      IN  IF l3.returned
                          THEN [result |-> FALSE, evaluated |-> l3.seen]
                          ELSE [result |-> TRUE, evaluated |-> l3.seen]

----------------------------------------------------------------------------
(* aabb.cpp *)

\* i & m, for m a single bit (1, 2 or 4) and i in 0..7
BitSet(i, m) == (i \div m) % 2 = 1

AabbFaceNormals == << <<1, 0, 0>>, <<0, 1, 0>>, <<0, 0, 1>> >>

AabbEdgeDirections == << <<1, 0, 0>>, <<0, 1, 0>>, <<0, 0, 1>> >>

\* aabb::aabb reading min where it should read max
AabbMinOnly(min, max) ==
    [ vertices |-> [ k \in 1..8 |-> << min[1], min[2], min[3] >> ],
      face_normals |-> AabbFaceNormals,
      edge_directions |-> AabbEdgeDirections ]

\* aabb::aabb with the y line testing i & 1, as the x line does
AabbYFromBit0(min, max) ==
    [ vertices |->
        [ k \in 1..8 |->
            << IF BitSet(k - 1, 1) THEN max[1] ELSE min[1],
               IF BitSet(k - 1, 1) THEN max[2] ELSE min[2],
               IF BitSet(k - 1, 4) THEN max[3] ELSE min[3] >> ],
      face_normals |-> AabbFaceNormals,
      edge_directions |-> AabbEdgeDirections ]

\* aabb::aabb(min, max); vertices[i] of the code is vertices[i + 1] here
Aabb(min, max) ==
    [ vertices |->
        [ k \in 1..8 |->
            << IF BitSet(k - 1, 1) THEN max[1] ELSE min[1],
               IF BitSet(k - 1, 2) THEN max[2] ELSE min[2],
               IF BitSet(k - 1, 4) THEN max[3] ELSE min[3] >> ],
      face_normals |-> AabbFaceNormals,
      edge_directions |-> AabbEdgeDirections ]

----------------------------------------------------------------------------
(* frustum.cpp *)

\* determinant of a 3x3 matrix (a tuple of rows)
Det3(a) ==
      a[1][1] * (a[2][2] * a[3][3] - a[2][3] * a[3][2])
    - a[1][2] * (a[2][1] * a[3][3] - a[2][3] * a[3][1])
    + a[1][3] * (a[2][1] * a[3][2] - a[2][2] * a[3][1])

\* the i-th of the three indices of 1..4 that are left when k is dropped
Skip(k, i) == IF i < k THEN i ELSE i + 1

Minor(m, r, c) ==
    Det3([ i \in 1..3 |-> [ j \in 1..3 |-> m[Skip(r, i)][Skip(c, j)] ] ])

\* the constructor without glm::inverse
AdjugateNone(m) == m

\* glm::inverse(m) times det(m): the adjugate of the 4x4 matrix m (a tuple of
\* rows). The factor det(m) multiplies all four components of m * v alike
\* and is cancelled by the division v / v.w of the constructor.
Adjugate(m) ==
    [ i \in 1..4 |->
        [ j \in 1..4 |->
            (IF (i + j) % 2 = 0 THEN 1 ELSE -1) * Minor(m, j, i) ] ]

\* the clip-space corner with z taken from bit 1 (i & 2), as y is
ClipCornerZFromY(i) ==
    << IF BitSet(i, 1) THEN 1 ELSE -1,
       IF BitSet(i, 2) THEN 1 ELSE -1,
       IF BitSet(i, 2) THEN 1 ELSE -1,
       1 >>

\* the clip-space corner of vertex i, i in 0..7
ClipCorner(i) ==
    << IF BitSet(i, 1) THEN 1 ELSE -1,
       IF BitSet(i, 2) THEN 1 ELSE -1,
       IF BitSet(i, 4) THEN 1 ELSE -1,
       1 >>

\* m * v for a 4x4 matrix and a 4-vector
MulVec(m, v) ==
    [ r \in 1..4 |-> m[r][1] * v[1] + m[r][2] * v[2] + m[r][3] * v[3] + m[r][4] * v[4] ]

\* v = m * v; v = v / v.w; v.xyz()
FrustumVertex(m, i) ==
    LET v == MulVec(m, ClipCorner(i))
    IN  << v[1] \div v[4], v[2] \div v[4], v[3] \div v[4] >>

\* face_normals with the far face (4, 5, 6) in place of the left face
FrustumFacesFarForLeft == << <<0, 1, 2>>, <<4, 5, 6>>, <<1, 5, 3>>, <<0, 4, 1>>, <<2, 3, 6>> >>

\* face_normals with the last triple wound the other way
FrustumFacesOneFlipped == << <<0, 1, 2>>, <<4, 0, 2>>, <<1, 5, 3>>, <<0, 4, 1>>, <<2, 6, 3>> >>

\* edge_directions with a second x edge (2, 3) in place of the edge (3, 7)
FrustumEdgesRepeated == << <<0, 1>>, <<0, 2>>, <<0, 4>>, <<1, 5>>, <<2, 6>>, <<2, 3>> >>

\* the index triples of face_normals and the index pairs of edge_directions
FrustumFaces == << <<0, 1, 2>>, <<4, 0, 2>>, <<1, 5, 3>>, <<0, 4, 1>>, <<2, 3, 6>> >>

FrustumEdges == << <<0, 1>>, <<0, 2>>, <<0, 4>>, <<1, 5>>, <<2, 6>>, <<3, 7>> >>

\* frustum::frustum(view_projection); vertices[i] of the code is
\* vertices[i + 1] here
Frustum(view_projection) ==
    LET m == Adjugate(view_projection)
        vertices == [ k \in 1..8 |-> FrustumVertex(m, k - 1) ]
        n(i0, i1, i2) ==
            Cross(Sub(vertices[i1 + 1], vertices[i0 + 1]),
                  Sub(vertices[i2 + 1], vertices[i0 + 1]))
        e(i0, i1) == Sub(vertices[i1 + 1], vertices[i0 + 1])
    IN  [ vertices |-> vertices,
          face_normals |->
              [ k \in 1..5 |-> n(FrustumFaces[k][1], FrustumFaces[k][2], FrustumFaces[k][3]) ],
          edge_directions |->
              [ k \in 1..6 |-> e(FrustumEdges[k][1], FrustumEdges[k][2]) ] ]

----------------------------------------------------------------------------
(* mesh_utils.cpp *)

\* glm::min and glm::max of two vec3: componentwise
VecMin(p, q) == << Min(p[1], q[1]), Min(p[2], q[2]), Min(p[3], q[3]) >>

VecMax(p, q) == << Max(p[1], q[1]), Max(p[2], q[2]), Max(p[3], q[3]) >>

\* bbox with max folded by glm::min as well
RECURSIVE BboxLoopMinTwice(_, _, _, _)
BboxLoopMinTwice(vertices, i, min, max) ==
    IF i > Len(vertices)
    THEN << min, max >>
    ELSE BboxLoopMinTwice(vertices, i + 1, VecMin(min, vertices[i]), VecMin(max, vertices[i]))

\* the loop of bbox from position i on; a vertex is its position
RECURSIVE BboxLoop(_, _, _, _)
BboxLoop(vertices, i, min, max) ==
    IF i > Len(vertices)
    THEN << min, max >>
    ELSE BboxLoop(vertices, i + 1, VecMin(min, vertices[i]), VecMax(max, vertices[i]))

Bbox(vertices) == BboxLoop(vertices, 1, << Inf, Inf, Inf >>, << -Inf, -Inf, -Inf >>)

----------------------------------------------------------------------------
(* gltf_loader.hpp: spline::operator() *)

\* std::upper_bound: the first position (from 0) whose timestamp is > time
UpperBound(timestamps, time) ==
    LET above == { i \in 0..(Len(timestamps) - 1) : timestamps[i + 1] > time }
    IN  IF above = { }
        THEN Len(timestamps)
        ELSE CHOOSE i \in above : \A j \in above : i <= j

\* std::lower_bound(timestamps.begin(), timestamps.end(), time) -
\* timestamps.begin(): the first position (from 0) whose timestamp is >= time,
\* timestamps.size() when there is none
LowerBound(timestamps, time) ==
    LET notless == { i \in 0..(Len(timestamps) - 1) : timestamps[i + 1] >= time }
    IN  IF notless = { }
        THEN Len(timestamps)
        ELSE CHOOSE i \in notless : \A j \in notless : i <= j

\* spline::operator()(time). The value is a fraction num / den: glm::lerp(a, b,
\* t) = a * (1 - t) + b * t with t = (time - timestamps[i - 1]) /
\* (timestamps[i] - timestamps[i - 1]). ts_read and vs_read are the positions
\* (from 0) read from timestamps and values past the search.
SplineAt(timestamps, values, time) ==
    LET i == LowerBound(timestamps, time)
    IN  IF i = 0 \/ i = Len(timestamps)
        THEN [ num |-> values[Len(values)], den |-> 1, i |-> i,
               ts_read |-> { }, vs_read |-> { Len(values) - 1 } ]
        ELSE LET den == timestamps[i + 1] - timestamps[i]
                 num == time - timestamps[i]
             IN  [ num |-> values[i] * (den - num) + values[i + 1] * num,
                   den |-> den, i |-> i,
                   ts_read |-> { i - 1, i }, vs_read |-> { i - 1, i } ]

----------------------------------------------------------------------------
(* hw1: grid.h, grid.cpp *)

\* size_t has 64 bits: a value is four 16-bit limbs, the lowest first
LimbBase == 65536

\* size_t quality = 4
InitialQuality == << 4, 0, 0, 0 >>

SizeOne == << 1, 0, 0, 0 >>

\* quality *= 2 in size_t: the carry out of the top limb is lost
TimesTwo(q) ==
    LET d1 == 2 * q[1]
        d2 == 2 * q[2] + d1 \div LimbBase
        d3 == 2 * q[3] + d2 \div LimbBase
        d4 == 2 * q[4] + d3 \div LimbBase
    IN  << d1 % LimbBase, d2 % LimbBase, d3 % LimbBase, d4 % LimbBase >>

\* quality /= 2 in size_t
HalfOf(q) ==
    << q[1] \div 2 + (q[2] % 2) * (LimbBase \div 2),
       q[2] \div 2 + (q[3] % 2) * (LimbBase \div 2),
       q[3] \div 2 + (q[4] % 2) * (LimbBase \div 2),
       q[4] \div 2 >>

\* how many vertices vtxs can hold before push_back throws: the memory of
\* the machine
MaxMeshVertices == 81

\* q is small enough for (q + 1)^2 to be computed
Small(q) == q[2] = 0 /\ q[3] = 0 /\ q[4] = 0 /\ q[1] < 256

\* GenerateGeometry(q) runs to its end
Fits(q) == Small(q) /\ (q[1] + 1) * (q[1] + 1) <= MaxMeshVertices

\* vtxs.clear(), indexes.clear()
Cleared(v) == << >>

\* The first loop of GenerateGeometry, count vertices of it: x outer, z
\* inner, each 0..quality; a vertex is kept as its (x, z), which fixes its
\* coordinates. rowlen = quality + 1.
VertexLoop(rowlen, count) ==
    [ k \in 1..count |-> << (k - 1) \div rowlen, (k - 1) % rowlen >> ]

\* the six pushes of one cell with the third and fourth one row too far
CellCornersPastEnd(base, q) ==
    << base, base + 1, base + q + 3, base + q + 3, base + q + 1, base >>

\* the six indexes pushed for one cell, base = i + j * (quality + 1)
CellCorners(base, q) ==
    << base, base + 1, base + q + 2, base + q + 2, base + q + 1, base >>

\* The second loop of GenerateGeometry: j outer, i inner, each 0..quality-1
IndexLoop(q) ==
    [ k \in 1..(6 * q * q) |->
        LET c == (k - 1) \div 6
            j == c \div q
            i == c % q
        IN  CellCorners(i + j * (q + 1), q)[((k - 1) % 6) + 1] ]

\* Grid::GenerateGeometry on the grid g. When vtxs cannot hold (quality +
\* 1)^2 vertices, push_back throws out of the first loop: vtxs keeps what
\* was pushed, indexes stays cleared, and the exception leaves the caller.
GenerateGeometry(g) ==
    IF Fits(g.quality)
    THEN [ g EXCEPT !.vtxs = Cleared(@) \o VertexLoop(g.quality[1] + 1,
                                                     (g.quality[1] + 1) * (g.quality[1] + 1)),
                    !.indexes = Cleared(@) \o IndexLoop(g.quality[1]),
                    !.thrown = FALSE ]
    ELSE [ g EXCEPT !.vtxs = Cleared(@) \o
                             VertexLoop(IF Small(g.quality) THEN g.quality[1] + 1
                                                            ELSE MaxMeshVertices + 1,
                                        MaxMeshVertices),
                    !.indexes = Cleared(@),
                    !.thrown = TRUE ]

\* before Grid grid; is reached
NoGrid ==
    [ constructed |-> FALSE, quality |-> InitialQuality, vtxs |-> << >>,
      indexes |-> << >>, thrown |-> FALSE ]

----------------------------------------------------------------------------
(* hw1: camera.h, camera.cpp. Entries of view and zoom are in 1/10000. *)

\* the view matrix the constructor assigns, row by row
ConstructedView ==
    << 7071, 0, -7071, 0,
       -5000, 7071, -5000, 0,
       5000, 7071, 5000, -700000,
       0, 0, 0, 10000 >>

\* before Camera cam(width, height); is reached
NoCamera == [ constructed |-> FALSE, view |-> ConstructedView, zoom |-> 0 ]

\* Camera::SetZoom: view[11] -= zoom; zoom = new_zoom; view[11] += zoom;
\* (view[11] is position 12 here)
SetZoom(c, new_zoom) ==
    [ c EXCEPT !.view[12] = (@ - c.zoom) + new_zoom, !.zoom = new_zoom ]

----------------------------------------------------------------------------
(* The particle demo: main. Positions, velocities, angles and angular     *)
(* speeds are in tenths, sizes in thousandths, dt is a whole number.       *)

\* if (particles.size() < 300)
MaxParticles == 300

\* std::uniform_real_distribution{lo, hi}(rng): std::default_random_engine
\* is default-seeded, so the k-th draw of a run is a fixed value in lo..hi;
\* r counts the init_particle calls made before, slot is the draw within
\* the call
Draw(lo, hi, r, slot) == lo + ((r * 7 + slot * 3) % (hi - lo + 1))

\* init_particle(p): everything but angle is drawn afresh, position.y = 0
InitParticle(p, r) ==
    [ position |-> << Draw(-10, 10, r, 1), 0, Draw(-10, 10, r, 2) >>,
      size |-> Draw(200, 400, r, 3),
      velocity |-> << Draw(-2, 2, r, 4), Draw(3, 40, r, 5), Draw(-2, 2, r, 6) >>,
      angular_speed |-> Draw(1, 10, r, 7),
      own_max_y |-> Draw(30, 70, r, 8),
      angle |-> p.angle ]

\* particles.push_back({}): a value-initialised particle
ZeroParticle ==
    [ position |-> << 0, 0, 0 >>, velocity |-> << 0, 0, 0 >>, size |-> 0,
      angle |-> 0, angular_speed |-> 0, own_max_y |-> 0 ]

\* The five assignments of the loop body, with A = 0.2, C = 0.1, D = 0.001;
\* exp(-C dt) and exp(-D dt) are taken to first order, 1 - C dt and 1 - D dt.
\* position is in tenths of a unit and velocity in tenths per unit of dt.
Advance(p, dt) ==
    LET vy == p.velocity[2] + dt * 2
        v == << p.velocity[1], vy, p.velocity[3] >>
    IN  [ p EXCEPT !.position = << @[1] + dt * v[1], @[2] + dt * v[2], @[3] + dt * v[3] >>,
                   !.velocity = << (v[1] * (10 - dt)) \div 10, (v[2] * (10 - dt)) \div 10,
                                   (v[3] * (10 - dt)) \div 10 >>,
                   !.size = (@ * (1000 - dt)) \div 1000,
                   !.angle = @ + dt * p.angular_speed ]

\* for (auto & particle : particles) over the positions lo..hi, in order; r
\* is the state of rng before. The range is halved rather than walked so
\* that 300 particles do not nest 300 deep; the order of the draws is that
\* of the loop.
RECURSIVE UpdateLoop(_, _, _, _, _)
UpdateLoop(ps, lo, hi, r, dt) ==
    IF lo > hi
    THEN [ particles |-> << >>, rng |-> r ]
    ELSE IF lo = hi
         THEN LET p == Advance(ps[lo], dt)
              IN  IF p.position[2] > p.own_max_y
                  THEN [ particles |-> << InitParticle(p, r) >>, rng |-> r + 1 ]
                  ELSE [ particles |-> << p >>, rng |-> r ]
         ELSE LET mid == (lo + hi) \div 2
                  first == UpdateLoop(ps, lo, mid, r, dt)
                  rest == UpdateLoop(ps, mid + 1, hi, first.rng, dt)
              IN  [ particles |-> first.particles \o rest.particles, rng |-> rest.rng ]

\* the push_back without the test of the size
SpawnAlways(st) ==
    [ particles |-> Append(st.particles, InitParticle(ZeroParticle, st.rng)),
      rng |-> st.rng + 1 ]

\* if (particles.size() < 300) { particles.push_back({});
\* init_particle(particles.back()); }
Spawn(st) ==
    IF Len(st.particles) < MaxParticles
    THEN [ particles |-> Append(st.particles, InitParticle(ZeroParticle, st.rng)),
           rng |-> st.rng + 1 ]
    ELSE st

----------------------------------------------------------------------------
(* The callers: what the program passes to intersect. *)

Coords == 0..MaxCoord

Points == Coords \X Coords \X Coords

LeqAll(p, q) == \A k \in 1..3 : p[k] <= q[k]

EmptyShape == [vertices |-> << >>, face_normals |-> << >>, edge_directions |-> << >>]

Init ==
    /\ kind = "none"
    /\ args = << >>
    /\ b1 = EmptyShape
    /\ b2 = EmptyShape
    /\ result = TRUE
    /\ evaluated = << >>
    /\ grid = NoGrid
    /\ draw_isoline = FALSE
    /\ cam = NoCamera
    /\ particles = << >>
    /\ paused = FALSE
    /\ rng = 0
    /\ frame_dt = 0
    /\ frames = 0

\* the call intersect(x, y), made by a caller of the given kind
Call(k, a, x, y) ==
    LET r == Intersect(x, y)
    IN  /\ kind' = k
        /\ args' = a
        /\ b1' = x
        /\ b2' = y
        /\ result' = r.result
        /\ evaluated' = r.evaluated
        /\ UNCHANGED << hw1Vars, demoVars >>

\* the caller drops the two shapes and the result before its next query
Return ==
    /\ kind # "none"
    /\ kind' = "none"
    /\ args' = << >>
    /\ b1' = EmptyShape
    /\ b2' = EmptyShape
    /\ result' = TRUE
    /\ evaluated' = << >>
    /\ UNCHANGED << hw1Vars, demoVars >>

\* the (min, max) pairs that meet the precondition of aabb: min <= max per axis
Boxes == { c \in Points \X Points : LeqAll(c[1], c[2]) }

\* intersect(aabb(min1, max1), aabb(min2, max2)), both boxes well-formed
IntersectBoxes ==
    /\ kind = "none"
    /\ \E c1 \in Boxes, c2 \in Boxes :
          Call("aabb", << c1[1], c1[2], c2[1], c2[2] >>,
               Aabb(c1[1], c1[2]), Aabb(c2[1], c2[2]))

\* Boxes of wider extent: the unit box and the box two units to its right
\* (the pair of the literal example), a box sharing the face x = 1 with the
\* first and the face x = 2 with the second, a large box, and a box strictly
\* inside the large one.
SampleBoxes ==
    { << <<0, 0, 0>>, <<1, 1, 1>> >>,
      << <<2, 0, 0>>, <<3, 1, 1>> >>,
      << <<1, 0, 0>>, <<2, 1, 1>> >>,
      << <<0, 0, 0>>, <<3, 3, 3>> >>,
      << <<1, 1, 1>>, <<2, 2, 2>> >> }

IntersectSampleBoxes ==
    /\ kind = "none"
    /\ \E c1 \in SampleBoxes, c2 \in SampleBoxes :
          Call("aabb", << c1[1], c1[2], c2[1], c2[2] >>,
               Aabb(c1[1], c1[2]), Aabb(c2[1], c2[2]))

\* all sequences over S of length 0..n
RECURSIVE SeqsUpTo(_, _)
SeqsUpTo(S, n) ==
    IF n = 0
    THEN { << >> }
    ELSE LET shorter == SeqsUpTo(S, n - 1)
         IN  shorter \cup { Append(q, e) : q \in shorter, e \in S }

\* vertex positions of hand-built shapes
ShapePoints == { <<0, 0, 0>>, <<1, 0, 0>> }

\* face normals of hand-built shapes: a zero vector and a non-unit one
ShapeNormals == { <<0, 0, 0>>, <<-2, 0, 0>> }

\* edge directions of hand-built shapes
ShapeEdges == { <<0, 1, 0>>, <<1, 0, 1>> }

Shapes ==
    { [vertices |-> v, face_normals |-> f, edge_directions |-> e] :
        v \in SeqsUpTo(ShapePoints, MaxLen),
        f \in SeqsUpTo(ShapeNormals, MaxLen),
        e \in SeqsUpTo(ShapeEdges, MaxLen) }

\* intersect(x, y) on two bodies that meet the Body contract of the template
\* (members vertices, face_normals, edge_directions) and nothing more
IntersectShapes ==
    /\ kind = "none"
    /\ \E x \in Shapes, y \in Shapes : Call("shape", << >>, x, y)

\* Shapes with longer lists: two segments (the first with a zero face normal)
\* and two triangles, each with two edge directions, a point, and two
\* segments on the x axis that touch at (1, 0, 0).
SampleShapes ==
    { [ vertices |-> << <<0, 0, 0>>, <<1, 0, 0>> >>,
        face_normals |-> << <<0, 0, 0>> >>,
        edge_directions |-> << <<1, 0, 0>>, <<0, 1, 0>> >> ],
      [ vertices |-> << <<0, 0, 1>>, <<0, 1, 1>> >>,
        face_normals |-> << >>,
        edge_directions |-> << <<1, 0, 0>>, <<0, 1, 0>> >> ],
      [ vertices |-> << <<0, 0, 0>>, <<2, 0, 0>>, <<0, 2, 0>> >>,
        face_normals |-> << <<0, 0, 1>>, <<0, -1, 0>> >>,
        edge_directions |-> << <<2, 0, 0>>, <<-2, 2, 0>> >> ],
      [ vertices |-> << <<1, 1, 0>>, <<1, 1, 2>>, <<3, 3, 0>> >>,
        face_normals |-> << <<1, -1, 0>>, <<0, 0, 0>> >>,
        edge_directions |-> << <<0, 0, 2>>, <<2, 2, 0>> >> ],
      [ vertices |-> << <<1, 1, 0>> >>,
        face_normals |-> << <<0, 0, 0>> >>,
        edge_directions |-> << >> ],
      [ vertices |-> << <<0, 0, 0>>, <<1, 0, 0>> >>,
        face_normals |-> << >>,
        edge_directions |-> << >> ],
      [ vertices |-> << <<1, 0, 0>>, <<2, 0, 0>> >>,
        face_normals |-> << <<1, 0, 0>> >>,
        edge_directions |-> << >> ] }

IntersectSampleShapes ==
    /\ kind = "none"
    /\ \E x \in SampleShapes, y \in SampleShapes : Call("shape", << >>, x, y)

\* near = 0.1f and far = 100.f, in tenths of a unit: all lengths of the
\* frustum query are in tenths
Near == 1

Far == 1000

\* glm::perspective(pi / 2, 1, near, far) times (far - near): tan(fovy / 2) = 1
\* and aspect = 1. A multiple of a view-projection matrix has the same frustum.
Perspective(near, far) ==
    << << far - near, 0, 0, 0 >>,
       << 0, far - near, 0, 0 >>,
       << 0, 0, -(far + near), -(2 * far * near) >>,
       << 0, 0, -(far - near), 0 >> >>

\* the boxes tested against the frustum: centre (cx, cy, cz), half extent h
CullCentresXY == { -200, 0, 200 }

CullCentresZ == { -900, -500, -50, -5, 5, 50, 500 }

CullHalfExtents == { 2, 40 }

CullBoxes ==
    { << << cx - h, cy - h, cz - h >>, << cx + h, cy + h, cz + h >> >> :
        cx \in CullCentresXY, cy \in CullCentresXY, cz \in CullCentresZ,
        h \in CullHalfExtents }

\* view is the identity (camera at the origin, looking down -z)
IntersectFrustum ==
    /\ kind = "none"
    /\ \E c \in CullBoxes :
          Call("frustum", << Perspective(Near, Far), c[1], c[2] >>,
               Frustum(Perspective(Near, Far)), Aabb(c[1], c[2]))

Identity4 == << <<1, 0, 0, 0>>, <<0, 1, 0, 0>>, <<0, 0, 1, 0>>, <<0, 0, 0, 1>> >>

\* a * b for 4x4 matrices
MatMul(a, b) ==
    [ r \in 1..4 |->
        [ c \in 1..4 |->
            a[r][1] * b[1][c] + a[r][2] * b[2][c] + a[r][3] * b[3][c] + a[r][4] * b[4][c] ] ]

\* glm::rotate(view, pi / 2, {0, 1, 0}): the camera turned a quarter turn
RotY90 == << <<0, 0, 1, 0>>, <<0, 1, 0, 0>>, <<-1, 0, 0, 0>>, <<0, 0, 0, 1>> >>

\* an affine map: p -> (p - (3, -2, 0)) / 2, written with w = 2
ShiftHalve == << <<1, 0, 0, -3>>, <<0, 1, 0, 2>>, <<0, 0, 1, 0>>, <<0, 0, 0, 2>> >>

\* projection * view with near 1 and far 3, the camera straight or turned
PerspectiveViews == { Perspective(1, 3), MatMul(Perspective(1, 3), RotY90) }

\* the view_projection matrices the frustum is built from
ViewProjections == { Identity4, ShiftHalve } \cup PerspectiveViews

\* intersect(frustum(view_projection), aabb(min, max))
IntersectFrustumOf ==
    /\ kind = "none"
    /\ \E vp \in ViewProjections, c \in Boxes :
          Call("frustum_of", << vp, c[1], c[2] >>, Frustum(vp), Aabb(c[1], c[2]))

NextFrustumOf == IntersectFrustumOf \/ Return

\* the positions of a single-vertex shape: inside, on and outside the boxes
PointCoords == { -1, 0, 1, 2 }

\* a shape with one vertex and no axes
PointShape(p) == [vertices |-> << p >>, face_normals |-> << >>, edge_directions |-> << >>]

\* intersect(point, aabb(min, max))
IntersectPointBox ==
    /\ kind = "none"
    /\ \E p \in PointCoords \X PointCoords \X PointCoords, c \in Boxes \cup SampleBoxes :
          Call("point", << p, c[1], c[2] >>, PointShape(p), Aabb(c[1], c[2]))

\* intersect(aabb(min, max), point)
IntersectBoxPoint ==
    /\ kind = "none"
    /\ \E p \in PointCoords \X PointCoords \X PointCoords, c \in Boxes \cup SampleBoxes :
          Call("point_rev", << p, c[1], c[2] >>, Aabb(c[1], c[2]), PointShape(p))

NextPoint == IntersectPointBox \/ IntersectBoxPoint \/ Return

\* the shapes an arbitrary box is tested against
OtherBodies == SampleShapes \cup { Aabb(c[1], c[2]) : c \in SampleBoxes }

\* intersect(aabb(p, q), y) for any two points p and q: the constructor does
\* not look at their order
IntersectAnyCorners ==
    /\ kind = "none"
    /\ \E p \in Points, q \in Points, y \in OtherBodies :
          Call("corners", << p, q >>, Aabb(p, q), y)

\* intersect(y, aabb(p, q))
IntersectAnyCornersSecond ==
    /\ kind = "none"
    /\ \E p \in Points, q \in Points, y \in OtherBodies :
          Call("corners_rev", << p, q >>, y, Aabb(p, q))

NextCorners == IntersectAnyCorners \/ IntersectAnyCornersSecond \/ Return

\* vertices added to a shape
ExtraVertices ==
    { << >>,
      << <<1, 1, 0>> >>,
      << <<0, 0, 1>>, <<3, 3, 0>> >>,
      << <<-1, 0, 0>>, <<5, 0, 2>>, <<0, 0, 0>> >> }

\* intersect(x2, y) where x2 is x with more vertices and the same axes
IntersectGrown ==
    /\ kind = "none"
    /\ \E x \in SampleShapes, e \in ExtraVertices, y \in SampleShapes :
          Call("grown", << x >>, [x EXCEPT !.vertices = x.vertices \o e], y)

\* by how much a bounding box is enlarged on each side
Growth == { <<0, 0, 0>>, <<1, 0, 0>>, <<0, 2, 1>> }

\* intersect(aabb(min - d1, max + d2), aabb(min2, max2)): enlarged bounds
IntersectGrownBox ==
    /\ kind = "none"
    /\ \E c \in Boxes, d1 \in Growth, d2 \in Growth, o \in SampleBoxes :
          Call("grown", << Aabb(c[1], c[2]) >>,
               Aabb(Sub(c[1], d1), Add(c[2], d2)), Aabb(o[1], o[2]))

NextGrown == IntersectGrown \/ IntersectGrownBox \/ Return

\* how many vertices a mesh handed to bbox has at most
MaxVertices == 3

\* the coordinates of mesh vertices
MeshCoords == { -2, 0, 3 }

\* the vertex positions of the meshes handed to bbox: some corners
MeshPoints == { << x, y, z >> : x \in MeshCoords, y \in { 0, 3 }, z \in { -2 } } \cup { << 0, -2, 3 >> }

\* bbox(vertices); result holds the returned pair
CallBbox ==
    /\ kind = "none"
    /\ \E v \in SeqsUpTo(MeshPoints, MaxVertices) :
          /\ kind' = "bbox"
          /\ args' = << v >>
          /\ b1' = EmptyShape
          /\ b2' = EmptyShape
          /\ result' = Bbox(v)
          /\ evaluated' = << >>
          /\ UNCHANGED << hw1Vars, demoVars >>

NextBbox == CallBbox \/ Return

\* how many keyframes a spline has at most
MaxKeys == 3

\* keyframe times and the times a spline is evaluated at
KeyTimes == 0..3

QueryTimes == -1..4

\* keyframe values
KeyValues == { 10, 30 }

\* ascending (not necessarily strictly) sequences
Sorted(ts) == \A i \in 1..(Len(ts) - 1) : ts[i] <= ts[i + 1]

\* the splines a loaded animation holds: timestamps and values of equal,
\* non-zero size, timestamps ascending
Splines ==
    { << ts, vs >> \in SeqsUpTo(KeyTimes, MaxKeys) \X SeqsUpTo(KeyValues, MaxKeys) :
        Len(ts) >= 1 /\ Len(ts) = Len(vs) /\ Sorted(ts) }

\* spline(time); result holds the returned value and the positions read
CallSpline ==
    /\ kind = "none"
    /\ \E sp \in Splines, time \in QueryTimes :
          /\ kind' = "spline"
          /\ args' = << sp[1], sp[2], time >>
          /\ b1' = EmptyShape
          /\ b2' = EmptyShape
          /\ result' = SplineAt(sp[1], sp[2], time)
          /\ evaluated' = << >>
          /\ UNCHANGED << hw1Vars, demoVars >>

NextSpline == CallSpline \/ Return

\* Grid grid; in main: the constructor runs GenerateGeometry
GridGrid ==
    /\ ~grid.constructed
    /\ grid' = GenerateGeometry([ grid EXCEPT !.constructed = TRUE ])
    /\ UNCHANGED << queryVars, draw_isoline, cam, demoVars >>

\* key Q: Grid::IncreaseQuality
IncreaseQuality ==
    /\ grid.constructed
    /\ grid' = GenerateGeometry([ grid EXCEPT !.quality = TimesTwo(@) ])
    /\ UNCHANGED << queryVars, draw_isoline, cam, demoVars >>

\* key A: Grid::DecreaseQuality
DecreaseQuality ==
    /\ grid.constructed
    /\ IF grid.quality = SizeOne
       THEN UNCHANGED grid
       ELSE grid' = GenerateGeometry([ grid EXCEPT !.quality = HalfOf(@) ])
    /\ UNCHANGED << queryVars, draw_isoline, cam, demoVars >>

\* key E: draw_isoline = !draw_isoline; grid.DrawIsolines(draw_isoline)
ToggleIsolines ==
    /\ grid.constructed
    /\ draw_isoline' = ~draw_isoline
    /\ UNCHANGED << queryVars, grid, cam, demoVars >>

NextGrid == GridGrid \/ IncreaseQuality \/ DecreaseQuality \/ ToggleIsolines

\* what the uninitialised member zoom may hold after construction
UninitialisedZoom == { 0, 10000, -35000 }

\* the values main passes to SetZoom: 0 at first, then steps of dt * 20
ZoomValues == { k * 2500 : k \in -20..20 }

\* Camera cam(width, height); the constructor assigns view (and top and
\* projection, which SetZoom does not touch), not zoom
CameraCamera ==
    /\ ~cam.constructed
    /\ \E z \in UninitialisedZoom :
          cam' = [ constructed |-> TRUE, view |-> ConstructedView, zoom |-> z ]
    /\ UNCHANGED << queryVars, grid, draw_isoline, demoVars >>

\* cam.SetZoom(zoom)
CallSetZoom ==
    /\ cam.constructed
    /\ \E z \in ZoomValues : cam' = SetZoom(cam, z)
    /\ UNCHANGED << queryVars, grid, draw_isoline, demoVars >>

NextCamera == CameraCamera \/ CallSetZoom

\* how many unpaused frames a run of the demo has at most
MaxFrames == 304

\* the frame times dt of a run
FrameTimes == { 1, 2 }

\* One pass of the frame loop after its events: the particle update. dt is
\* the frame time of the run, the same in every frame.
Frame ==
    /\ \E dt \in FrameTimes :
          /\ frame_dt = 0 \/ frame_dt = dt
          /\ frame_dt' = dt
          /\ IF paused
             THEN UNCHANGED << particles, rng, frames >>
             ELSE /\ frames < MaxFrames
                  /\ LET st == Spawn(UpdateLoop(particles, 1, Len(particles), rng, dt))
                     IN  /\ particles' = st.particles
                         /\ rng' = st.rng
                  /\ frames' = frames + 1
    /\ UNCHANGED << queryVars, hw1Vars, paused >>

\* case SDL_KEYDOWN with SDLK_SPACE: paused = !paused
KeyDownSpace ==
    /\ paused' = ~paused
    /\ UNCHANGED << queryVars, hw1Vars, particles, rng, frame_dt, frames >>

NextDemo == Frame \/ KeyDownSpace

\* the vertex lists handed to project and intersect_along directly
VertexLists ==
    SeqsUpTo(ShapePoints, MaxLen) \cup { x.vertices : x \in SampleShapes }

\* a body that has vertices only
VertexBody(v) == [vertices |-> v, face_normals |-> << >>, edge_directions |-> << >>]

\* the axes handed to project and intersect_along directly: zero, unit,
\* non-unit and negative ones
ProbeAxes ==
    { <<0, 0, 0>>, <<1, 0, 0>>, <<0, 1, 0>>, <<-1, 0, 1>>,
      <<-1, -1, 0>>, <<0, 0, -2>>, <<1, -1, 0>>, <<2, 1, -1>> }

\* project(b, n); result holds the returned pair
CallProject ==
    /\ kind = "none"
    /\ \E v \in VertexLists, n \in ProbeAxes :
          /\ kind' = "project"
          /\ args' = << n >>
          /\ b1' = VertexBody(v)
          /\ b2' = EmptyShape
          /\ result' = Project(VertexBody(v), n)
          /\ evaluated' = << >>
          /\ UNCHANGED << hw1Vars, demoVars >>

\* intersect_along(b1, b2, n)
CallIntersectAlong ==
    /\ kind = "none"
    /\ \E v \in VertexLists, w \in VertexLists, n \in ProbeAxes :
          /\ kind' = "along"
          /\ args' = << n >>
          /\ b1' = VertexBody(v)
          /\ b2' = VertexBody(w)
          /\ result' = IntersectAlong(VertexBody(v), VertexBody(w), n)
          /\ evaluated' = << n >>
          /\ UNCHANGED << hw1Vars, demoVars >>

NextAxis == CallProject \/ CallIntersectAlong \/ Return

NextBoxes == IntersectBoxes \/ IntersectSampleBoxes \/ Return

NextShapes == IntersectShapes \/ IntersectSampleShapes \/ Return

NextFrustum == IntersectFrustum \/ Return

Next ==
    \/ IntersectBoxes
    \/ IntersectSampleBoxes
    \/ IntersectShapes
    \/ IntersectSampleShapes
    \/ IntersectFrustum
    \/ IntersectFrustumOf
    \/ IntersectPointBox
    \/ IntersectBoxPoint
    \/ IntersectAnyCorners
    \/ IntersectAnyCornersSecond
    \/ IntersectGrown
    \/ IntersectGrownBox
    \/ CallBbox
    \/ CallSpline
    \/ GridGrid
    \/ IncreaseQuality
    \/ DecreaseQuality
    \/ ToggleIsolines
    \/ CameraCamera
    \/ CallSetZoom
    \/ Frame
    \/ KeyDownSpace
    \/ CallProject
    \/ CallIntersectAlong
    \/ Return

SpecBoxes == Init /\ [][NextBoxes]_vars

SpecShapes == Init /\ [][NextShapes]_vars

SpecFrustum == Init /\ [][NextFrustum]_vars

SpecFrustumOf == Init /\ [][NextFrustumOf]_vars

SpecAxis == Init /\ [][NextAxis]_vars

SpecPoint == Init /\ [][NextPoint]_vars

SpecCorners == Init /\ [][NextCorners]_vars

SpecGrown == Init /\ [][NextGrown]_vars

SpecBbox == Init /\ [][NextBbox]_vars

SpecSpline == Init /\ [][NextSpline]_vars

SpecGrid == Init /\ [][NextGrid]_vars

SpecCamera == Init /\ [][NextCamera]_vars

SpecDemo == Init /\ [][NextDemo]_vars

Spec == Init /\ [][Next]_vars

----------------------------------------------------------------------------
(* Properties of the box queries (SpecBoxes). In a state of kind "aabb",    *)
(* args = << min1, max1, min2, max2 >>.                                     *)

\* the closed intervals of the two boxes overlap on axis k
Overlap(k) == args[1][k] <= args[4][k] /\ args[3][k] <= args[2][k]

\* box 1 lies in box 2
FirstInSecond == LeqAll(args[3], args[1]) /\ LeqAll(args[2], args[4])

\* box 2 lies in box 1
SecondInFirst == LeqAll(args[1], args[3]) /\ LeqAll(args[4], args[2])

\* C1: for two boxes built with min <= max, intersect returns true exactly
\* when their closed coordinate intervals overlap on all of x, y and z.
C1_BoxesIntersectIffIntervalsOverlap ==
    kind = "aabb" => (result <=> \A k \in 1..3 : Overlap(k))

\* the literal example: aabb({0,0,0},{1,1,1}) vs aabb({2,0,0},{3,1,1}) is false
C1_Witness ==
    /\ kind = "aabb"
    /\ args = << <<0, 0, 0>>, <<1, 1, 1>>, <<2, 0, 0>>, <<3, 1, 1>> >>
    /\ result = FALSE

\* C2: if the ranges of two boxes do not overlap on some axis (max1 < min2 or
\* max2 < min1), intersect returns false, whatever the other two axes are.
C2_SeparatedOnOneAxisIsFalse ==
    kind = "aabb" /\ (\E k \in 1..3 : args[2][k] < args[3][k] \/ args[4][k] < args[1][k])
        => result = FALSE

\* separated on exactly one axis, overlapping on the other two
C2_Witness ==
    /\ kind = "aabb"
    /\ \E k \in 1..3 :
          /\ args[4][k] < args[1][k]
          /\ \A j \in (1..3) \ {k} : Overlap(j)
    /\ result = FALSE

\* C3: two boxes that touch (max1 = min2 on one axis, ranges overlapping on
\* the other two) intersect.
C3_TouchingIsTrue ==
    kind = "aabb" /\ (\E k \in 1..3 :
                         /\ args[2][k] = args[3][k]
                         /\ \A j \in (1..3) \ {k} : Overlap(j))
        => result = TRUE

\* two boxes of positive extent that share exactly one face
C3_Witness ==
    /\ kind = "aabb"
    /\ \E k \in 1..3 :
          /\ args[1][k] < args[2][k]
          /\ args[2][k] = args[3][k]
          /\ args[3][k] < args[4][k]
          /\ \A j \in (1..3) \ {k} : Overlap(j)
    /\ result = TRUE

\* C4: when one box lies inside the other, intersect returns true with the
\* inner box as first argument and with the inner box as second argument.
C4_ContainmentIsTrue ==
    kind = "aabb" /\ (FirstInSecond \/ SecondInFirst)
        => /\ result = TRUE
           /\ Intersect(b2, b1).result = TRUE

\* box 1 lies strictly inside box 2
C4_Witness ==
    /\ kind = "aabb"
    /\ \A k \in 1..3 : args[3][k] < args[1][k] /\ args[2][k] < args[4][k]
    /\ result = TRUE

----------------------------------------------------------------------------
(* Properties of intersect on arbitrary bodies (SpecShapes). *)

Zero == <<0, 0, 0>>

\* the candidate axes of a pair of bodies, as a set
CandidateAxes(x, y) ==
    { x.face_normals[i] : i \in 1..Len(x.face_normals) }
    \cup { y.face_normals[i] : i \in 1..Len(y.face_normals) }
    \cup { Cross(x.edge_directions[i], y.edge_directions[j]) :
             i \in 1..Len(x.edge_directions), j \in 1..Len(y.edge_directions) }

\* the candidate axes in the order of the three loops: faces of x, faces of
\* y, then cross(e1, e2) with e1 outer and e2 inner
AxisOrder(x, y) ==
    LET m == Len(x.edge_directions)
        n == Len(y.edge_directions)
    IN  x.face_normals \o y.face_normals \o
        [ k \in 1..(m * n) |->
            Cross(x.edge_directions[((k - 1) \div n) + 1],
                  y.edge_directions[((k - 1) % n) + 1]) ]

\* C5: intersect(A, B) = intersect(B, A).
C5_Symmetric ==
    kind # "none" => result = Intersect(b2, b1).result

\* the two orders visit different axis sequences, one of them a negated
\* non-zero cross product, and the bodies are separated
C5_Witness ==
    /\ kind = "shape"
    /\ b1 # b2
    /\ result = FALSE
    /\ evaluated # Intersect(b2, b1).evaluated
    /\ \E i \in 1..Len(b1.edge_directions), j \in 1..Len(b2.edge_directions) :
          Cross(b1.edge_directions[i], b2.edge_directions[j]) # Zero

\* C6: a body with at least one vertex intersects itself, whatever its
\* face_normals and edge_directions are.
C6_SelfIntersects ==
    /\ kind # "none" /\ Len(b1.vertices) >= 1 => Intersect(b1, b1).result = TRUE
    /\ kind # "none" /\ Len(b2.vertices) >= 1 => Intersect(b2, b2).result = TRUE
    /\ kind # "none" /\ Len(b1.vertices) >= 1 /\ b1 = b2 => result = TRUE

\* intersect(A, A) was called on a body with vertices, normals and edges
C6_Witness ==
    /\ kind = "shape"
    /\ b1 = b2
    /\ Len(b1.vertices) >= 2
    /\ Len(b1.face_normals) >= 1
    /\ Len(b1.edge_directions) >= 1
    /\ result = TRUE

\* C7: for bodies with vertices, the zero axis passes intersect_along, so a
\* "false" is never returned at a zero axis and the result is decided by the
\* non-zero candidate axes alone.
C7_ZeroAxisNeverSeparates ==
    kind # "none" /\ Len(b1.vertices) >= 1 /\ Len(b2.vertices) >= 1
        => /\ IntersectAlong(b1, b2, Zero)
           /\ (result = FALSE => evaluated[Len(evaluated)] # Zero)
           /\ (result <=> \A n \in CandidateAxes(b1, b2) \ {Zero} : IntersectAlong(b1, b2, n))

\* a zero face normal and a zero cross product of parallel edges were both
\* evaluated and passed, and a later non-zero axis separated the bodies
C7_Witness ==
    /\ kind = "shape"
    /\ Len(b1.vertices) >= 1 /\ Len(b2.vertices) >= 1
    /\ Len(b1.face_normals) >= 1 /\ b1.face_normals[1] = Zero
    /\ \E k \in 1..Len(evaluated) :
          /\ k > Len(b1.face_normals) + Len(b2.face_normals)
          /\ evaluated[k] = Zero
    /\ result = FALSE

\* C9: intersect returns true if and only if every candidate axis (face
\* normals of both bodies, cross products of all edge pairs) passes the
\* closed-interval overlap test, and false iff some candidate axis fails it.
C9_TrueIffEveryAxisPasses ==
    kind # "none" =>
        /\ result = TRUE <=> \A n \in CandidateAxes(b1, b2) : IntersectAlong(b1, b2, n)
        /\ result = FALSE <=> \E n \in CandidateAxes(b1, b2) : ~IntersectAlong(b1, b2, n)

\* the only failing axis is a face normal of the second body
C9_Witness ==
    /\ kind = "shape"
    /\ result = FALSE
    /\ \A i \in 1..Len(b1.face_normals) : IntersectAlong(b1, b2, b1.face_normals[i])
    /\ \A i \in 1..Len(b1.edge_directions), j \in 1..Len(b2.edge_directions) :
          IntersectAlong(b1, b2, Cross(b1.edge_directions[i], b2.edge_directions[j]))
    /\ \E i \in 1..Len(b2.face_normals) : ~IntersectAlong(b1, b2, b2.face_normals[i])

\* C10: the axes evaluated are an initial part of the fixed order (faces of
\* the first body, faces of the second, cross products with the first body's
\* edge in the outer loop); it ends at the first failing axis when the result
\* is false and is the whole order, |facesA| + |facesB| + |edgesA| * |edgesB|
\* axes, when the result is true.
C10_FixedOrderShortCircuit ==
    kind # "none" =>
        LET order == AxisOrder(b1, b2)
            k == Len(evaluated)
        IN  /\ k <= Len(order)
            /\ \A i \in 1..k : evaluated[i] = order[i]
            /\ \A i \in 1..(k - 1) : IntersectAlong(b1, b2, order[i])
            /\ result = TRUE =>
                  /\ k = Len(b1.face_normals) + Len(b2.face_normals)
                         + Len(b1.edge_directions) * Len(b2.edge_directions)
                  /\ \A i \in 1..k : IntersectAlong(b1, b2, order[i])
            /\ result = FALSE =>
                  /\ k >= 1
                  /\ ~IntersectAlong(b1, b2, order[k])

\* the call returned false in the middle of a 2 x 2 edge loop, leaving later
\* cross products unevaluated
C10_Witness ==
    /\ kind = "shape"
    /\ Len(b1.edge_directions) = 2 /\ Len(b2.edge_directions) = 2
    /\ result = FALSE
    /\ Len(evaluated) > Len(b1.face_normals) + Len(b2.face_normals) + 1
    /\ Len(evaluated) < Len(AxisOrder(b1, b2))

----------------------------------------------------------------------------
(* Properties of the frustum query (SpecFrustum). In a state of kind        *)
(* "frustum", args = << view_projection, min, max >> and b1 is the frustum. *)

\* the corners (+-Near, +-Near, -Near) and (+-Far, +-Far, -Far)
PerspectiveCorners ==
    { << sx * d, sy * d, -d >> : sx \in {-1, 1}, sy \in {-1, 1}, d \in {Near, Far} }

\* the box is centred on the view axis, its centre at a depth inside (near, far)
CentredInside ==
    /\ args[2][1] + args[3][1] = 0
    /\ args[2][2] + args[3][2] = 0
    /\ 2 * Near < -(args[2][3] + args[3][3])
    /\ -(args[2][3] + args[3][3]) < 2 * Far

\* the box lies entirely behind the camera: all z > 0
BehindCamera == args[2][3] > 0

\* C8: the frustum of the 90 degree, aspect 1, near 0.1, far 100 projection
\* has the corners (+-0.1, +-0.1, -0.1) and (+-100, +-100, -100); it intersects
\* a box centred on the view axis at a depth inside [near, far] and does not
\* intersect a box entirely behind the camera.
C8_FrustumCulling ==
    kind = "frustum" =>
        /\ { b1.vertices[k] : k \in 1..8 } = PerspectiveCorners
        /\ CentredInside => result = TRUE
        /\ BehindCamera => result = FALSE

\* a small box on the view axis, entirely between the near and the far plane
C8_Witness ==
    /\ kind = "frustum"
    /\ CentredInside
    /\ Near < -args[3][3] /\ -args[2][3] < Far
    /\ result = TRUE

----------------------------------------------------------------------------
(* Properties of project and intersect_along (SpecAxis). In a state of kind *)
(* "project" or "along", args = << n >>; in a state of kind "project",      *)
(* result = << min, max >>.                                                 *)

\* the dot products of the vertices of b with n
Dots(b, n) == { Dot(b.vertices[i], n) : i \in 1..Len(b.vertices) }

\* C11: for a body with vertices, project returns the smallest and the
\* largest dot product of a vertex with the axis: both are attained and every
\* dot product lies between them, so min <= max.
C11_ProjectIsMinMax ==
    kind = "project" /\ Len(b1.vertices) >= 1 =>
        /\ result[1] \in Dots(b1, args[1])
        /\ result[2] \in Dots(b1, args[1])
        /\ \A d \in Dots(b1, args[1]) : result[1] <= d /\ d <= result[2]
        /\ result[1] <= result[2]

\* three vertices with all dot products negative and not all equal
C11_Witness ==
    /\ kind = "project"
    /\ Len(b1.vertices) = 3
    /\ result[1] < result[2]
    /\ result[2] < 0

\* C12: project on a body without vertices fails fast and does not return a
\* degenerate interval.
C12_EmptyFailsFast ==
    kind = "project" /\ Len(b1.vertices) = 0 => ~(result[1] > result[2])

Scale(k, n) == << k * n[1], k * n[2], k * n[3] >>

\* the factors tried on each axis
AxisScales == { -3, -1, 2, 5 }

\* C16: for bodies with vertices and every non-zero factor k, positive or
\* negative, intersect_along on k * n gives what it gives on n.
C16_AxisScaleAndSignImmaterial ==
    kind = "along" /\ Len(b1.vertices) >= 1 /\ Len(b2.vertices) >= 1 =>
        \A k \in AxisScales : IntersectAlong(b1, b2, Scale(k, args[1])) = result

\* two proper intervals that touch: max of the first is min of the second
C16_Witness ==
    /\ kind = "along"
    /\ Len(b1.vertices) >= 1 /\ Len(b2.vertices) >= 1
    /\ Project(b1, args[1])[1] < Project(b1, args[1])[2]
    /\ Project(b1, args[1])[2] = Project(b2, args[1])[1]
    /\ Project(b2, args[1])[1] < Project(b2, args[1])[2]
    /\ result = TRUE

----------------------------------------------------------------------------
(* Properties of the aabb constructor (SpecBoxes). *)

UnitAxes == << <<1, 0, 0>>, <<0, 1, 0>>, <<0, 0, 1>> >>

\* max when the bit is 1, min when it is 0
Pick(bit, lo, hi) == IF bit = 1 THEN hi ELSE lo

\* b is what aabb(mn, mx) has to be
IsBoxOf(b, mn, mx) ==
    /\ Len(b.vertices) = 8
    /\ \A bx \in {0, 1}, by \in {0, 1}, bz \in {0, 1} :
          b.vertices[1 + bx + 2 * by + 4 * bz] =
              << Pick(bx, mn[1], mx[1]), Pick(by, mn[2], mx[2]), Pick(bz, mn[3], mx[3]) >>
    /\ { 1 + bx + 2 * by + 4 * bz : bx \in {0, 1}, by \in {0, 1}, bz \in {0, 1} } = 1..8
    /\ b.face_normals = UnitAxes
    /\ b.edge_directions = UnitAxes

\* C14: aabb(min, max) has 8 vertices, vertex i taking max.x, max.y, max.z
\* where bit 0, 1, 2 of i is set and min.x, min.y, min.z where it is not, so
\* that each of the 8 combinations is the vertex of exactly one index; its
\* face_normals and edge_directions are the three unit axes, for every box.
C14_AabbVerticesAndAxes ==
    kind = "aabb" =>
        /\ IsBoxOf(b1, args[1], args[2])
        /\ IsBoxOf(b2, args[3], args[4])

\* two different boxes of positive extent: 8 distinct vertices each
C14_Witness ==
    /\ kind = "aabb"
    /\ Cardinality({ b1.vertices[k] : k \in 1..8 }) = 8
    /\ Cardinality({ b2.vertices[k] : k \in 1..8 }) = 8
    /\ args[1] # args[3]
    /\ b1.face_normals = b2.face_normals

----------------------------------------------------------------------------
(* Properties of the frustum constructor (SpecFrustumOf). In a state of    *)
(* kind "frustum_of", args = << view_projection, min, max >> and b1 is the *)
(* frustum. Corner i of the clip cube has bit 0 for x, bit 1 for y, bit 2  *)
(* for z.                                                                  *)

\* the three bits of i, i in 0..7
Bits(i) == << i % 2, (i \div 2) % 2, (i \div 4) % 2 >>

\* the clip-cube corner of index i: +1 where the bit is set, -1 where not
CubeCorner(i) == << 2 * Bits(i)[1] - 1, 2 * Bits(i)[2] - 1, 2 * Bits(i)[3] - 1 >>

\* view_projection maps the point v to the clip-space point c (after its
\* own division by w)
MapsTo(vp, v, c) ==
    LET u == MulVec(vp, << v[1], v[2], v[3], 1 >>)
    IN  /\ u[4] # 0
        /\ \A k \in 1..3 : u[k] = c[k] * u[4]

\* C15: vertex i of frustum(view_projection) is the point that
\* view_projection maps to clip-cube corner i, i.e. the image of the corner
\* (with w = 1) under the inverse, divided by its w; for the identity the
\* vertices are the corners themselves.
C15_FrustumVerticesAreInverseImages ==
    kind = "frustum_of" =>
        /\ Len(b1.vertices) = 8
        /\ \A i \in 0..7 : MapsTo(args[1], b1.vertices[i + 1], CubeCorner(i))
        /\ args[1] = Identity4 => \A i \in 0..7 : b1.vertices[i + 1] = CubeCorner(i)

\* a perspective matrix, whose inverse gives the corners different w
C15_Witness ==
    /\ kind = "frustum_of"
    /\ args[1] = Perspective(1, 3)
    /\ b1.vertices[1] = << -1, -1, -1 >>
    /\ b1.vertices[8] = << 3, 3, -3 >>

\* the faces << axis, side >> of the clip cube that hold all corners of t
FacesHolding(t) ==
    { f \in (1..3) \X {-1, 1} :
        \A k \in 1..3 : CubeCorner(t[k])[f[1]] = f[2] }

\* C18: each of the 5 index triples of face_normals is three distinct corners
\* of one face of the clip cube, and the five faces are, in order, z = -1
\* (near), x = -1, x = +1, y = -1, y = +1; the far face z = +1 has no triple.
C18_FaceTriplesLieOnFiveFaces ==
    kind = "frustum_of" =>
        /\ Len(b1.face_normals) = 5
        /\ FrustumFaces = << <<0, 1, 2>>, <<4, 0, 2>>, <<1, 5, 3>>, <<0, 4, 1>>, <<2, 3, 6>> >>
        /\ \A k \in 1..5 :
              /\ Cardinality({ FrustumFaces[k][1], FrustumFaces[k][2], FrustumFaces[k][3] }) = 3
              /\ Cardinality(FacesHolding(FrustumFaces[k])) = 1
        /\ FacesHolding(FrustumFaces[1]) = { << 3, -1 >> }
        /\ FacesHolding(FrustumFaces[2]) = { << 1, -1 >> }
        /\ FacesHolding(FrustumFaces[3]) = { << 1, 1 >> }
        /\ FacesHolding(FrustumFaces[4]) = { << 2, -1 >> }
        /\ FacesHolding(FrustumFaces[5]) = { << 2, 1 >> }
        /\ \A k \in 1..5 : << 3, 1 >> \notin FacesHolding(FrustumFaces[k])
        /\ args[1] = Identity4 =>
              \A k \in 1..5 :
                  \E f \in FacesHolding(FrustumFaces[k]) :
                      /\ b1.face_normals[k][f[1]] # 0
                      /\ \A a \in (1..3) \ {f[1]} : b1.face_normals[k][a] = 0

\* the frustum of the identity: its five normals are along z, x, x, y, y
C18_Witness ==
    /\ kind = "frustum_of"
    /\ args[1] = Identity4
    /\ b1.face_normals[1][3] # 0
    /\ b1.face_normals[2][1] # 0
    /\ b1.face_normals[3][1] # 0
    /\ b1.face_normals[4][2] # 0
    /\ b1.face_normals[5][2] # 0

\* the bit (1, 2 or 4) in which the two corners of an index pair differ, as
\* a set: empty when they differ otherwise
EdgeBit(p) == { m \in {1, 2, 4} : p[2] = p[1] + m /\ (p[1] \div m) % 2 = 0 }

\* the positions of edge_directions whose pair differs in bit m
EdgesOfBit(m) == { k \in 1..6 : EdgeBit(FrustumEdges[k]) = { m } }

Parallel(u, v) == Cross(u, v) = << 0, 0, 0 >>

\* the 12 edges of the cube, as index pairs
CubeEdges == { p \in (0..7) \X (0..7) : EdgeBit(p) # { } }

\* C19: each of the 6 index pairs of edge_directions is an edge of the clip
\* cube; they are one x edge, one y edge and the four z edges, so that in a
\* perspective frustum every one of the 12 edges is parallel to a listed
\* direction and no two listed directions are parallel.
C19_EdgePairsCoverDirections ==
    kind = "frustum_of" =>
        /\ Len(b1.edge_directions) = 6
        /\ FrustumEdges = << <<0, 1>>, <<0, 2>>, <<0, 4>>, <<1, 5>>, <<2, 6>>, <<3, 7>> >>
        /\ \A k \in 1..6 : Cardinality(EdgeBit(FrustumEdges[k])) = 1
        /\ Cardinality(EdgesOfBit(1)) = 1
        /\ Cardinality(EdgesOfBit(2)) = 1
        /\ { FrustumEdges[k][1] : k \in EdgesOfBit(4) } = 0..3
        /\ args[1] \in PerspectiveViews =>
              /\ \A p \in CubeEdges :
                    \E k \in 1..6 :
                        Parallel(Sub(b1.vertices[p[2] + 1], b1.vertices[p[1] + 1]),
                                 b1.edge_directions[k])
              /\ \A k \in 1..6, l \in 1..6 :
                    k # l => ~Parallel(b1.edge_directions[k], b1.edge_directions[l])

\* a perspective frustum, its near-to-far edges in four different directions
C19_Witness ==
    /\ kind = "frustum_of"
    /\ args[1] \in PerspectiveViews
    /\ Cardinality({ b1.edge_directions[k] : k \in 3..6 }) = 4

\* 8 times the centre of the frustum
CentreTimes8(b) ==
    << b.vertices[1][1] + b.vertices[2][1] + b.vertices[3][1] + b.vertices[4][1]
         + b.vertices[5][1] + b.vertices[6][1] + b.vertices[7][1] + b.vertices[8][1],
       b.vertices[1][2] + b.vertices[2][2] + b.vertices[3][2] + b.vertices[4][2]
         + b.vertices[5][2] + b.vertices[6][2] + b.vertices[7][2] + b.vertices[8][2],
       b.vertices[1][3] + b.vertices[2][3] + b.vertices[3][3] + b.vertices[4][3]
         + b.vertices[5][3] + b.vertices[6][3] + b.vertices[7][3] + b.vertices[8][3] >>

\* normal k of b dotted with 8 times the vector from the first corner of its
\* face to the centre: positive when the normal points inward
Inwardness(b, k) ==
    Dot(b.face_normals[k],
        Sub(CentreTimes8(b), Scale(8, b.vertices[FrustumFaces[k][1] + 1])))

\* C20: the 5 face normals are wound alike: all of them point inward or all
\* of them point outward.
C20_ConsistentWinding ==
    kind = "frustum_of" =>
        \/ \A k \in 1..5 : Inwardness(b1, k) > 0
        \/ \A k \in 1..5 : Inwardness(b1, k) < 0

\* the identity, an orientation-preserving matrix: the vertices are the
\* clip-cube corners and all five normals point inward
C20_Witness ==
    /\ kind = "frustum_of"
    /\ args[1] = Identity4
    /\ \A k \in 1..5 : Inwardness(b1, k) > 0

----------------------------------------------------------------------------
(* Shapes with a common point (SpecShapes).                                *)

\* a vertex of y is a vertex of x or the midpoint of two vertices of x
VertexIn(x, y) ==
    \E j \in 1..Len(y.vertices) :
        \E i \in 1..Len(x.vertices), l \in 1..Len(x.vertices) :
            Scale(2, y.vertices[j]) =
                << x.vertices[i][1] + x.vertices[l][1],
                   x.vertices[i][2] + x.vertices[l][2],
                   x.vertices[i][3] + x.vertices[l][3] >>

\* C17: two shapes with a point in common intersect, whatever their
\* face_normals and edge_directions hold (redundant, non-unit, zero).
C17_CommonPointIntersects ==
    kind = "shape" /\ (VertexIn(b1, b2) \/ VertexIn(b2, b1)) => result = TRUE

\* a common vertex, a zero normal and a non-unit normal among the axes tried
C17_Witness ==
    /\ kind = "shape"
    /\ \E i \in 1..Len(b1.vertices), j \in 1..Len(b2.vertices) :
          b1.vertices[i] = b2.vertices[j]
    /\ \E k \in 1..Len(evaluated) : evaluated[k] = << 0, 0, 0 >>
    /\ \E k \in 1..Len(evaluated) : Dot(evaluated[k], evaluated[k]) > 1
    /\ result = TRUE

----------------------------------------------------------------------------
(* Degenerate and ill-ordered arguments (SpecPoint, SpecShapes,            *)
(* SpecCorners, SpecGrown).                                                *)

\* C21: a single vertex p without axes against aabb(min, max), min <= max:
\* intersect is true, in either argument order, exactly when p lies in the
\* closed box.
C21_PointInClosedBox ==
    kind \in { "point", "point_rev" } =>
        (result = TRUE <=> LeqAll(args[2], args[1]) /\ LeqAll(args[1], args[3]))

\* the point on the boundary of a box of positive width, box first
C21_Witness ==
    /\ kind = "point_rev"
    /\ args[1][1] = args[3][1]
    /\ \A k \in 1..3 : args[2][k] < args[3][k]
    /\ result = TRUE

\* C22: with no face normals at all and no edge directions in one of the two
\* shapes, intersect evaluates no axis and returns true, whatever the
\* vertices.
C22_NoAxesMeansTrue ==
    /\ kind = "shape"
    /\ Len(b1.face_normals) = 0
    /\ Len(b2.face_normals) = 0
    /\ Len(b1.edge_directions) = 0 \/ Len(b2.edge_directions) = 0
    => result = TRUE /\ evaluated = << >>

\* two distinct points, the second with an edge direction
C22_Witness ==
    /\ kind = "shape"
    /\ b1 = [vertices |-> << <<0, 0, 0>> >>, face_normals |-> << >>, edge_directions |-> << >>]
    /\ b2.vertices = << <<1, 0, 0>> >>
    /\ Len(b2.face_normals) = 0
    /\ Len(b2.edge_directions) = 1
    /\ result = TRUE

CMin(p, q) == << Min(p[1], q[1]), Min(p[2], q[2]), Min(p[3], q[3]) >>

CMax(p, q) == << Max(p[1], q[1]), Max(p[2], q[2]), Max(p[3], q[3]) >>

VertexSet(b) == { b.vertices[i] : i \in 1..Len(b.vertices) }

\* the box of the ordered corners of the call
Ordered == Aabb(CMin(args[1], args[2]), CMax(args[1], args[2]))

\* C23: aabb(p, q) has the vertex set of aabb(min(p, q), max(p, q)) for any
\* p and q, and intersect returns for it what it returns for the ordered
\* box, in either argument order.
C23_CornerOrderImmaterial ==
    /\ kind = "corners" =>
          /\ VertexSet(b1) = VertexSet(Ordered)
          /\ result = Intersect(Ordered, b2).result
    /\ kind = "corners_rev" =>
          /\ VertexSet(b2) = VertexSet(Ordered)
          /\ result = Intersect(b1, Ordered).result

\* corners mixed up (neither p <= q nor q <= p), result false
C23_Witness ==
    /\ kind = "corners"
    /\ ~LeqAll(args[1], args[2])
    /\ ~LeqAll(args[2], args[1])
    /\ b1.vertices # Ordered.vertices
    /\ result = FALSE

\* C24: if intersect(A, B) is true, intersect is true for B and a shape with
\* the axes of A and more vertices, and for B and an enlarged box.
C24_MonotoneInVertices ==
    kind = "grown" /\ Intersect(args[1], b2).result => result = TRUE

\* a shape that touched B before two vertices were added
C24_Witness ==
    /\ kind = "grown"
    /\ Len(b1.vertices) = Len(args[1].vertices) + 2
    /\ b1.face_normals = args[1].face_normals
    /\ Len(b1.face_normals) > 0
    /\ Intersect(args[1], b2).result
    /\ result = TRUE

----------------------------------------------------------------------------
(* bbox (SpecBbox) and spline evaluation (SpecSpline).                     *)

\* C25: for a non-empty vertex list bbox returns, per coordinate, the
\* smallest value as min and the largest as max, so min <= max and every
\* vertex lies in the closed box; for an empty list it returns +inf as min
\* and -inf as max on every axis, so there min > max.
C25_BboxIsTightBox ==
    kind = "bbox" =>
        LET vs == args[1]
            min == result[1]
            max == result[2]
        IN  /\ Len(vs) >= 1 =>
                 /\ \A k \in 1..3 :
                       /\ \E i \in 1..Len(vs) : vs[i][k] = min[k]
                       /\ \E i \in 1..Len(vs) : vs[i][k] = max[k]
                       /\ \A i \in 1..Len(vs) : min[k] <= vs[i][k] /\ vs[i][k] <= max[k]
                 /\ LeqAll(min, max)
            /\ Len(vs) = 0 =>
                 /\ min = << Inf, Inf, Inf >>
                 /\ max = << -Inf, -Inf, -Inf >>
                 /\ \A k \in 1..3 : min[k] > max[k]

\* three vertices none of which is a corner of the box
C25_Witness ==
    /\ kind = "bbox"
    /\ Len(args[1]) = 3
    /\ \A i \in 1..3 : args[1][i] # result[1] /\ args[1][i] # result[2]
    /\ \A k \in 1..3 : result[1][k] < result[2][k]

\* C26: on a non-empty spline with ascending timestamps the call reads only
\* positions inside the two arrays; it interpolates only between keyframes
\* i - 1 and i with 1 <= i <= size - 1 and timestamps[i - 1] < time <=
\* timestamps[i]; for a time after the last timestamp, and for a time at or
\* before the first one, it returns the last value.
C26_SplineStaysInsideItsArrays ==
    kind = "spline" =>
        LET ts == args[1]
            vs == args[2]
            time == args[3]
            size == Len(ts)
        IN  /\ result.ts_read \subseteq 0..(size - 1)
            /\ result.vs_read \subseteq 0..(size - 1)
            /\ result.ts_read # { } =>
                 /\ 1 <= result.i /\ result.i <= size - 1
                 /\ result.ts_read = { result.i - 1, result.i }
                 /\ result.vs_read = { result.i - 1, result.i }
                 /\ ts[result.i] < time /\ time <= ts[result.i + 1]
                 /\ result.den > 0
            /\ time > ts[size] => result.num = vs[size] /\ result.den = 1
            /\ time <= ts[1] => result.num = vs[size] /\ result.den = 1

\* a time at the first of three keyframes: the last value comes back, which
\* is not the first one
C26_Witness ==
    /\ kind = "spline"
    /\ Len(args[1]) = 3
    /\ args[3] = args[1][1]
    /\ args[2][1] # args[2][3]
    /\ result.num = args[2][3]
    /\ result.ts_read = { }

----------------------------------------------------------------------------
(* hw1: the grid (SpecGrid) and the camera (SpecCamera).                   *)

PowersOfTwoInLimb == { 1, 2, 4, 8, 16, 32, 64, 128, 256, 512, 1024, 2048, 4096,
                       8192, 16384, 32768 }

\* q = 2^k for some k in 0..63: one limb is a power of two, the others are 0
IsPowerOfTwo(q) ==
    \E l \in 1..4 :
        /\ q[l] \in PowersOfTwoInLimb
        /\ \A m \in (1..4) \ { l } : q[m] = 0

C28_MeshConsistent ==
    grid.constructed /\ ~grid.thrown /\ grid.quality # << 0, 0, 0, 0 >> =>
        LET q == grid.quality[1]
        IN  /\ Small(grid.quality)
            /\ Len(grid.vtxs) = (q + 1) * (q + 1)
            /\ Len(grid.indexes) = 6 * q * q
            /\ \A k \in 1..Len(grid.indexes) :
                  0 <= grid.indexes[k] /\ grid.indexes[k] < (q + 1) * (q + 1)

\* quality 2 after it was 4: the smaller mesh replaced the larger one, and
\* the last vertex is in use
C28_Witness ==
    /\ grid.constructed
    /\ ~grid.thrown
    /\ grid.quality = << 2, 0, 0, 0 >>
    /\ Len(grid.vtxs) = 9
    /\ \E k \in 1..Len(grid.indexes) : grid.indexes[k] = 8

\* C29: every SetZoom call on a constructed Camera, the first one included,
\* leaves view[11] at its constructed value plus the zoom just set, and all
\* other entries of view as they were.
C29_ViewFollowsZoom ==
    [][ cam.constructed /\ cam' # cam =>
          /\ cam'.view[12] = ConstructedView[12] + cam'.zoom
          /\ \A k \in (1..16) \ { 12 } : cam'.view[k] = cam.view[k] ]_vars

----------------------------------------------------------------------------
(* The particle demo (SpecDemo).                                           *)

\* what one step of the demo may do to the particles
ParticleStep ==
    /\ Len(particles') >= Len(particles)
    /\ Len(particles') <= Len(particles) + 1
    /\ Len(particles') > Len(particles) => ~paused /\ Len(particles) < MaxParticles
    /\ paused \/ paused' # paused => particles' = particles
    /\ frames' # frames =>
          \A i \in 1..Len(particles') :
              particles'[i].position[2] <= particles'[i].own_max_y

\* C30: the number of particles never exceeds 300 and never decreases; a
\* frame adds at most one particle, only when unpaused and below 300, and
\* leaves no particle above its own_max_y; while paused a frame changes no
\* particle, and neither does the SPACE key.
C30_ParticleCountBounded ==
    [](Len(particles) <= MaxParticles) /\ [][ParticleStep]_vars

\* the vector is full, particles have been re-initialised, the demo is paused
C30_Witness ==
    /\ Len(particles) = MaxParticles
    /\ rng > MaxParticles
    /\ paused
    /\ frames > MaxParticles

====
